---- MODULE Spec2Model ----
(***************************************************************************)
(* Lumina: a memory description is turned into a letter, a portrait and a  *)
(* voice reading by three calls to a hosted model.  The module models      *)
(*   - callWithRetry, the backoff wrapper of the generation client;        *)
(*   - the two orchestrators of App.tsx: the sequential one (variant "A")  *)
(*     and the background-load one (variant "B").                          *)
(* Strings that the code inspects are sequences of one-character strings,  *)
(* so that includes() and toLowerCase() are computed, not assumed.         *)
(***************************************************************************)
EXTENDS Integers, Sequences, FiniteSets, TLC

\* ------------------------------------------------------------------------
\* Bounds of the model
\* ------------------------------------------------------------------------
MaxBudget == 3
MaxGen == 2
MaxPlay == 2
MaxParts == 3
MaxChunks == 3
MaxBytes == 4

\* ------------------------------------------------------------------------
\* JavaScript values
\* ------------------------------------------------------------------------
Null == "null"

\* ------------------------------------------------------------------------
\* Optional values: None is null / undefined, Some(x) is a present value
\* ------------------------------------------------------------------------
None == <<>>
Some(x) == <<x>>
IsSome(m) == Len(m) > 0
Get(m) == m[1]

UpperChars == <<"A","B","C","D","E","F","G","H","I","J","K","L","M","N","O","P","Q","R","S","T","U","V","W","X","Y","Z">>
LowerChars == <<"a","b","c","d","e","f","g","h","i","j","k","l","m","n","o","p","q","r","s","t","u","v","w","x","y","z">>

\* String.prototype.toLowerCase, one character
LowerChar(c) ==
  IF \E i \in 1..Len(UpperChars) : UpperChars[i] = c
    THEN LowerChars[CHOOSE i \in 1..Len(UpperChars) : UpperChars[i] = c]
    ELSE c

\* String.prototype.toLowerCase
ToLowerCase(s) == [i \in 1..Len(s) |-> LowerChar(s[i])]

\* String.prototype.includes
Includes(s, sub) ==
  \E i \in 1..(Len(s) - Len(sub) + 1) : SubSeq(s, i, i + Len(sub) - 1) = sub

Sub429 == <<"4","2","9">>
SubExhausted == <<"e","x","h","a","u","s","t","e","d">>

\* messages of the errors the hosted client and the client code raise
Msg429 == <<"g","o","t"," ","s","t","a","t","u","s",":"," ","4","2","9">>
MsgResourceExhausted == <<"R","E","S","O","U","R","C","E","_","E","X","H","A","U","S","T","E","D">>
MsgQuotaExhausted == <<"Q","u","o","t","a"," ","e","x","h","a","u","s","t","e","d">>
MsgFetchFailed == <<"f","e","t","c","h"," ","f","a","i","l","e","d">>
MsgNearMiss == <<"4","2"," ","9"," ","e","x","h","a","u","s","t"," ","e","d">>
MsgApiKeyMissing ==
  <<"A","P","I"," ","K","e","y"," ","i","s"," ","m","i","s","s","i","n","g",".">>
MsgApiKeyMissingEnv ==
  <<"A","P","I"," ","K","e","y"," ","i","s"," ","m","i","s","s","i","n","g",".">>
    \o <<" ","P","l","e","a","s","e"," ","s","e","t"," ","t","h","e"," ","A","P","I","_","K","E","Y">>
    \o <<" ","e","n","v","i","r","o","n","m","e","n","t"," ","v","a","r","i","a","b","l","e",".">>
MsgNotValidJson ==
  <<"\"","u","n","d","e","f","i","n","e","d","\""," ","i","s"," ","n","o","t"," ","v","a","l","i","d"," ","J","S","O","N">>
MsgNoImageData == <<"N","o"," ","i","m","a","g","e"," ","d","a","t","a">>

\* an error value: a name and an optional message
Err(name, message) == [name |-> name, message |-> message]

RateLimitErrors ==
  { Err("ApiError", Some(Msg429)), Err("ApiError", Some(MsgResourceExhausted)),
    Err("ApiError", Some(MsgQuotaExhausted)) }

OtherErrors ==
  { Err("TypeError", Some(MsgFetchFailed)), Err("ApiError", Some(MsgNearMiss)),
    Err("Error", None) }

Errors == RateLimitErrors \cup OtherErrors

\* ------------------------------------------------------------------------
\* callWithRetry
\* ------------------------------------------------------------------------

\* mutant: only the "429" substring is recognised
isRateLimit429Only(error) ==
  /\ IsSome(error.message)
  /\ Includes(Get(error.message), Sub429)

\* error?.message?.includes("429") ||
\* error?.message?.toLowerCase().includes("exhausted")
isRateLimit(error) ==
  /\ IsSome(error.message)
  /\ \/ Includes(Get(error.message), Sub429)
     \/ Includes(ToLowerCase(Get(error.message)), SubExhausted)

\* mutant: every failure is retried while budget remains
ShouldRetryAnyError(retries, error) == retries > 0

\* mutant: one retry too many (retries >= 0)
ShouldRetryOffByOne(retries, error) == retries >= 0 /\ isRateLimit(error)

\* if (retries > 0 && isRateLimit)
ShouldRetry(retries, error) == retries > 0 /\ isRateLimit(error)

\* mutant: constant backoff
NextDelayConstant(delay) == delay

\* delay * 2
NextDelay(delay) == delay * 2

\* mutant: the failure is wrapped in a new error
ThrownWrapped(error) == Err("RetryError", error.message)

\* throw error
Thrown(error) == error

\* one invocation of callWithRetry(fn, retries, delay): fn() is in flight
StartCall(retries, delay) ==
  [ phase |-> "calling", retries |-> retries, delay |-> delay,
    calls |-> 1, waits |-> <<>>, errs |-> <<>>, outcome |-> Null ]

NoCall ==
  [ phase |-> "idle", retries |-> 0, delay |-> 0,
    calls |-> 0, waits |-> <<>>, errs |-> <<>>, outcome |-> Null ]

\* getAI() threw before callWithRetry was reached: the promise of the
\* operation is rejected and fn was never invoked
KeyMissing == [NoCall EXCEPT !.phase = "config"]

\* mutant: await fn() without return, the value of the attempt is dropped
OnResolveDiscarding(c, v) == [c EXCEPT !.phase = "returned"]

\* return await fn()  -- fn resolved with value v
OnResolve(c, v) == [c EXCEPT !.phase = "returned", !.outcome = v]

\* catch (error)  -- fn rejected with error e
OnReject(c, e) ==
  IF ShouldRetry(c.retries, e)
    THEN [c EXCEPT !.phase = "waiting", !.errs = Append(@, e)]
    ELSE [c EXCEPT !.phase = "thrown", !.errs = Append(@, e),
                   !.outcome = Thrown(e)]

\* the timer of setTimeout(resolve, delay) fires:
\* return callWithRetry(fn, retries - 1, delay * 2)
OnTimer(c) ==
  [c EXCEPT !.phase = "calling", !.waits = Append(@, c.delay),
            !.retries = @ - 1, !.delay = NextDelay(@), !.calls = @ + 1]

VARIABLES
  rc,              \* callWithRetry on its own: the invocation under study
  budget0,         \* its initial retry budget
  delay0,          \* its initial delay
  variant,         \* "A": sequential orchestrator, "B": background-load
  apiKey,          \* process.env.API_KEY is set
  service,         \* the generation client the orchestrator is built with
  state,           \* AppState
  memory,          \* MemoryData
  result,          \* GenerationResult | null
  errorMsg,        \* variant B
  quotaWait,       \* variant B
  isImageLoading,  \* variant B
  isAudioLoading,  \* variant B
  loadingStep,     \* variant A
  alerts,          \* variant A: number of alert() dialogs shown
  gen,             \* number of generations started
  letterCall,      \* variant B: callWithRetry of the letter of generation gen
  tasks,           \* variant B: the loadMultimedia continuation of each generation
  seq,             \* variant A: the generateContent continuation
  hist,            \* history: what happened to the calls of each generation
  lastLetter,      \* history: text of the most recent successful letter call
  caught,          \* history: the error caught by the last failed generation
  letterSinceReset,\* history: a letter call succeeded since the last reset
  origin,          \* history: the generation whose letter call built the result
                   \* and those of the calls that wrote its imageUrl and its
                   \* audioData (0: none)
  ignored,         \* history: since the result was last cleared, a portrait or
                   \* a voice call resolved and found it null
  audioContext,    \* audioContextRef.current: "null", or the state of the context
  audioSourceRef,  \* audioSourceRef.current: 0 (null) or a source
  sources,         \* the AudioBufferSourceNodes created: what each is doing
  plays,           \* the playAudio continuations, in the order of their invocation
  microtasks,      \* the continuations whose await of decodeAudio is a pending
                   \* promise reaction of the running task
  armed,           \* history: the user triggered playback since the last reset
  fn,              \* a client function on its own: the function under study,
  arg,             \* its argument
  ret              \* and what it returned or threw (None: not applied yet)

retryVars == <<rc, budget0, delay0>>

appVars ==
  <<variant, apiKey, service, state, memory, result, errorMsg, quotaWait, isImageLoading,
    isAudioLoading, loadingStep, alerts, gen, letterCall, tasks, seq, hist,
    lastLetter, caught, letterSinceReset, origin, ignored>>

audioVars == <<audioContext, audioSourceRef, sources, plays, microtasks, armed>>

fnVars == <<fn, arg, ret>>

vars == <<retryVars, appVars, audioVars, fnVars>>

\* what the orchestration leaves alone, the reset excepted
idleVars == <<retryVars, fnVars, audioVars, variant, apiKey, service>>

\* ------------------------------------------------------------------------
\* Inputs
\* ------------------------------------------------------------------------
Values == {"v1", "v2"}
InitialDelays == {4000, 5000, 6000}

Names == {"", "Anna"}
Relationships == {"", "grandmother"}
Details == {"", "smell of cinnamon"}
Moods == {"nostalgic", "bittersweet", "hopeful", "grieving"}

EmptyMemory ==
  [name |-> "", relationship |-> "", detail |-> "", mood |-> "nostalgic"]

\* if (!apiKey) throw new Error("API Key is missing.")
ErrKeyMissing == Err("Error", Some(MsgApiKeyMissing))
ErrKeyMissingEnv == Err("Error", Some(MsgApiKeyMissingEnv))

\* errors the hosted client raises for the letter request
CallErrors ==
  { Err("ApiError", Some(Msg429)), Err("ApiError", Some(MsgResourceExhausted)),
    Err("TypeError", Some(MsgFetchFailed)), Err("Error", None) }

\* errors the hosted client raises for the portrait and voice requests
MediaErrors ==
  { Err("ApiError", Some(MsgResourceExhausted)), Err("TypeError", Some(MsgFetchFailed)) }

\* the objects the text of a response to the unified letter request encodes
UnifiedResponses ==
  { [letter |-> "Dear one", imagePrompt |-> "an empty chair"],
    [letter |-> "My child", imagePrompt |-> "a blue bicycle"] }

\* response.text of the unified letter request: None when the hosted model
\* returned no text, otherwise the JSON text of an object
UnifiedTexts == {None} \cup {Some(unified) : unified \in UnifiedResponses}

\* JSON.parse(undefined) throws
ErrNotValidJson == Err("SyntaxError", Some(MsgNotValidJson))

\* JSON.parse(response.text): None stands for the SyntaxError
JsonParse(text) == IF IsSome(text) THEN Some(Get(text)) ELSE None

\* content parts of a response: inlineData is None or Some(base64 data)
TextPart == [inlineData |-> None]
InlinePart(d) == [inlineData |-> Some(d)]

ImageResponses ==
  { <<TextPart>>, <<TextPart, InlinePart("iVBOR1")>>,
    <<InlinePart("iVBOR1"), InlinePart("iVBOR2")>> }

AudioSamples == <<"A","A","A","A","Q","A","D","A","/","3","8","=">>

\* a payload of three bytes
OddSamples == <<"A","A","A","A">>

VoiceResponses ==
  { <<TextPart>>, <<InlinePart(AudioSamples)>>, <<InlinePart(OddSamples)>> }

\* response of the grounded letter request of variant A
LetterResponses ==
  { [text |-> "", chunks |-> <<>>],
    [text |-> "Dear one", chunks |-> <<>>],
    [text |-> "My child",
     chunks |-> << [web |-> Some([title |-> "Blizzard", uri |-> "https://a"])],
                   [web |-> None],
                   [web |-> Some([title |-> "", uri |-> "https://b"])] >>] }

\* ------------------------------------------------------------------------
\* Generation client
\* ------------------------------------------------------------------------
LetterRetries == 3
LetterDelay == 4000
ImageRetries == 2
ImageDelay == 5000
VoiceRetries == 1
VoiceDelay == 6000

DataUriPrefix == "data:image/png;base64,"
FallbackLetter == "I couldn't find the words just yet..."

\* `data:image/png;base64,${part.inlineData.data}`; '' is the empty sequence
DataUri(d) == <<DataUriPrefix, d>>

InlineIndexes(parts) == {i \in 1..Len(parts) : IsSome(parts[i].inlineData)}

Min(S) == CHOOSE x \in S : \A y \in S : x <= y
Max(S) == CHOOSE x \in S : \A y \in S : x >= y

\* mutant: the loop keeps the last part with inlineData
PortraitOfRetriedLast(parts) ==
  IF InlineIndexes(parts) = {}
    THEN None
    ELSE Some(DataUri(Get(parts[Max(InlineIndexes(parts))].inlineData)))

\* part_000 generateMemoryPortrait: the for loop returns at the first part
\* with inlineData; None stands for reaching `throw new Error("No image data")`
PortraitOfRetried(parts) ==
  IF InlineIndexes(parts) = {}
    THEN None
    ELSE Some(DataUri(Get(parts[Min(InlineIndexes(parts))].inlineData)))

\* geminiService.ts generateMemoryPortrait: the for loop overwrites imageUrl
\* at every part with inlineData and '' is returned when there is none
PortraitOfDirect(parts) ==
  IF InlineIndexes(parts) = {}
    THEN <<>>
    ELSE DataUri(Get(parts[Max(InlineIndexes(parts))].inlineData))

\* response.candidates?.[0]?.content?.parts?.[0]?.inlineData?.data || ''
VoiceOf(parts) ==
  IF Len(parts) > 0 /\ IsSome(parts[1].inlineData)
    THEN Get(parts[1].inlineData)
    ELSE <<>>

RECURSIVE CitationsOfUriOnly(_)
\* mutant: the filter is w => w && w.uri
CitationsOfUriOnly(chunks) ==
  IF chunks = <<>>
    THEN <<>>
    ELSE LET web == Head(chunks).web
             rest == CitationsOfUriOnly(Tail(chunks))
         IN IF IsSome(web) /\ Get(web).uri # ""
              THEN <<[title |-> Get(web).title, uri |-> Get(web).uri]>> \o rest
              ELSE rest

RECURSIVE CitationsOf(_)
\* groundingChunks.map(c => c.web).filter(w => w && w.uri && w.title)
\*                .map(w => ({ title: w.title, uri: w.uri }))
CitationsOf(chunks) ==
  IF chunks = <<>>
    THEN <<>>
    ELSE LET web == Head(chunks).web
             rest == CitationsOf(Tail(chunks))
         IN IF IsSome(web) /\ Get(web).uri # "" /\ Get(web).title # ""
              THEN <<[title |-> Get(web).title, uri |-> Get(web).uri]>> \o rest
              ELSE rest

\* geminiService.ts generateEmotionalLetter: response.text || fallback
LetterOf(response) ==
  [ text |-> IF response.text # "" THEN response.text ELSE FallbackLetter,
    citations |-> CitationsOf(response.chunks) ]

\* ------------------------------------------------------------------------
\* decodeAudio
\* ------------------------------------------------------------------------
Base64Chars ==
  <<"A","B","C","D","E","F","G","H","I","J","K","L","M","N","O","P","Q","R","S","T","U","V","W","X","Y","Z",
    "a","b","c","d","e","f","g","h","i","j","k","l","m","n","o","p","q","r","s","t","u","v","w","x","y","z",
    "0","1","2","3","4","5","6","7","8","9","+","/">>

\* the 6-bit value of a character of the base64 alphabet
Base64Value(c) == (CHOOSE i \in 1..Len(Base64Chars) : Base64Chars[i] = c) - 1

\* atob(base64), then bytes[i] = binaryString.charCodeAt(i): four characters
\* carry three bytes, the "=" padding carries none
Atob(base64) ==
  LET data == SelectSeq(base64, LAMBDA c : c # "=")
      Sextet(i) == IF i <= Len(data) THEN Base64Value(data[i]) ELSE 0
      Group(g) == Sextet(4 * g + 1) * 262144 + Sextet(4 * g + 2) * 4096
                    + Sextet(4 * g + 3) * 64 + Sextet(4 * g + 4)
      Byte(k) == LET g == (k - 1) \div 3
                     r == (k - 1) % 3
                 IN CASE r = 0 -> Group(g) \div 65536
                      [] r = 1 -> (Group(g) \div 256) % 256
                      [] r = 2 -> Group(g) % 256
  IN [k \in 1..((Len(data) * 6) \div 8) |-> Byte(k)]

SampleRate == 24000
FullScale == 32768

\* mutant: the two bytes of a sample are read high byte first
Int16BigEndian(lo, hi) ==
  LET u == hi + 256 * lo IN IF u >= 32768 THEN u - 65536 ELSE u

\* one element of new Int16Array(bytes.buffer): two's complement, low byte
\* first (typed arrays use the byte order of the platform, which is
\* little-endian on every platform a browser runs on)
Int16(lo, hi) ==
  LET u == lo + 256 * hi IN IF u >= 32768 THEN u - 65536 ELSE u

\* a sample value of the Float32Array: the exact quotient num / den
Frame(sample) == [num |-> sample, den |-> FullScale]

\* new Int16Array(buffer) throws a RangeError unless the byte length of the
\* buffer is a multiple of 2
CanViewAsInt16(bytes) == Len(bytes) % 2 = 0

\* ctx.createBuffer(numberOfChannels, length, sampleRate) raises a
\* NotSupportedError when an argument is zero
CanCreateBuffer(numberOfChannels, length, sampleRate) ==
  numberOfChannels > 0 /\ length > 0 /\ sampleRate > 0

\* what decodeAudio settles with: the name of the error of a rejection, or
\* the AudioBuffer
Rejected(name) == [error |-> name, buffer |-> None]
Fulfilled(buffer) == [error |-> "", buffer |-> Some(buffer)]

\* mutant: the frames are written to a buffer shared with the sources
\* created before, after their frames
decodeAudioAppending(base64) ==
  LET bytes == Atob(base64)
      created == Cardinality({s \in DOMAIN sources : sources[s] # "none"})
      frameCount == Len(bytes) \div 2
  IN IF ~CanViewAsInt16(bytes)
       THEN Rejected("RangeError")
       ELSE IF ~CanCreateBuffer(1, frameCount, SampleRate)
         THEN Rejected("NotSupportedError")
         ELSE Fulfilled([ numberOfChannels |-> 1,
                          sampleRate |-> SampleRate,
                          length |-> frameCount * (created + 1),
                          channelData |->
                            [i \in 1..(frameCount * (created + 1)) |->
                               IF i <= frameCount * created
                                 THEN Frame(0)
                                 ELSE Frame(Int16(bytes[2 * (i - frameCount * created) - 1],
                                                  bytes[2 * (i - frameCount * created)]))] ])

\* decodeAudio(base64, ctx)
decodeAudio(base64) ==
  LET bytes == Atob(base64)
      frameCount == Len(bytes) \div 2
  IN IF ~CanViewAsInt16(bytes)
       THEN Rejected("RangeError")
       ELSE IF ~CanCreateBuffer(1, frameCount, SampleRate)
         THEN Rejected("NotSupportedError")
         ELSE Fulfilled([ numberOfChannels |-> 1,
                          sampleRate |-> SampleRate,
                          length |-> frameCount,
                          channelData |->
                            [i \in 1..frameCount |->
                               Frame(Int16(bytes[2 * i - 1], bytes[2 * i]))] ])

\* ------------------------------------------------------------------------
\* Orchestrator state
\* ------------------------------------------------------------------------
Gens == 1..MaxGen
Plays == 1..MaxPlay

\* a playAudio continuation: where it is suspended, the audioData of the
\* result of the render it was invoked in and its buffer (None before
\* decodeAudio returned one)
NoPlay == [pc |-> "none", audioData |-> <<>>, buffer |-> None]

\* a loadMultimedia continuation: where it is suspended and the callWithRetry
\* it awaits; its arguments only shape the prompts of its requests, which do
\* not constrain the responses, so they are not kept
NoTask == [pc |-> "none", call |-> NoCall]

SeqIdle ==
  [pc |-> "idle", letterRes |-> [text |-> "", citations |-> <<>>], imageUrl |-> <<>>]

\* per generation and request: "none", "pending" (sent to the hosted model),
\* "ok", "failed"; a letter request is "unsent" when the operation failed
\* before sending it
\* reply: whether the response to the letter request carried a text
\* ("none": no response, "text", "empty")
\* spoken: whether the response to the voice request carried an audio part
\* ("none": no response, "audio", "empty")
NoHist ==
  [letter |-> "none", image |-> "none", voice |-> "none", reply |-> "none",
   spoken |-> "none"]

NoOrigin == [result |-> 0, image |-> 0, audio |-> 0]

QuotaMessage == "The garden's echoes are too loud right now. Let's wait for a moment of silence."
LostPrefix == "The connection was lost: "

\* `The connection was lost: ${error?.message}`
LostMessage(error) == [text |-> LostPrefix, detail |-> error.message]

RetryIdle ==
  /\ rc = NoCall
  /\ budget0 = 0
  /\ delay0 = 0

AppInit ==
  /\ state = "landing"
  /\ memory = EmptyMemory
  /\ result = None
  /\ errorMsg = None
  /\ quotaWait = FALSE
  /\ isImageLoading = FALSE
  /\ isAudioLoading = FALSE
  /\ loadingStep = ""
  /\ alerts = 0
  /\ gen = 0
  /\ letterCall = NoCall
  /\ tasks = [g \in Gens |-> NoTask]
  /\ seq = SeqIdle
  /\ hist = [g \in Gens |-> NoHist]
  /\ lastLetter = None
  /\ caught = None
  /\ letterSinceReset = FALSE
  /\ origin = NoOrigin
  /\ ignored = FALSE

\* no audio context yet, nothing was played
AudioInit ==
  /\ audioContext = "null"
  /\ audioSourceRef = 0
  /\ sources = [s \in Plays |-> "none"]
  /\ plays = [i \in Plays |-> NoPlay]
  /\ microtasks = <<>>
  /\ armed = FALSE

FnIdle ==
  /\ fn = "none"
  /\ arg = None
  /\ ret = None

\* the client of each orchestrator: the sequential one calls the direct
\* client, of which there is a version that builds the hosted client when the
\* module loads and one that builds it per call, after checking the key; the
\* background-load one calls the retried client
Services(v) == IF v = "A" THEN {"direct-static", "direct-lazy"} ELSE {"retried"}

Init ==
  /\ variant \in {"A", "B"}
  /\ apiKey \in BOOLEAN
  /\ service \in Services(variant)
  /\ AppInit
  /\ RetryIdle
  /\ AudioInit
  /\ FnIdle

\* ------------------------------------------------------------------------
\* callWithRetry on its own
\* ------------------------------------------------------------------------
InitRetry ==
  /\ budget0 \in 0..MaxBudget
  /\ delay0 \in InitialDelays
  /\ rc = StartCall(budget0, delay0)
  /\ variant = "B"
  /\ apiKey = TRUE
  /\ service = "retried"
  /\ AppInit
  /\ AudioInit
  /\ FnIdle

RetryResolve ==
  /\ rc.phase = "calling"
  /\ \E v \in Values : rc' = OnResolve(rc, v)
  /\ UNCHANGED <<budget0, delay0, appVars, audioVars, fnVars>>

RetryReject ==
  /\ rc.phase = "calling"
  /\ \E e \in Errors : rc' = OnReject(rc, e)
  /\ UNCHANGED <<budget0, delay0, appVars, audioVars, fnVars>>

RetryTimer ==
  /\ rc.phase = "waiting"
  /\ rc' = OnTimer(rc)
  /\ UNCHANGED <<budget0, delay0, appVars, audioVars, fnVars>>

NextRetry == RetryResolve \/ RetryReject \/ RetryTimer

SpecRetry == InitRetry /\ [][NextRetry]_vars

\* ------------------------------------------------------------------------
\* callWithRetry at its three call sites (specification SpecCalls)
\* ------------------------------------------------------------------------
CallSites == {"generateUnifiedContent", "generateMemoryPortrait", "generateLetterVoice"}

\* the retries argument of the call site
RetriesAt(site) ==
  CASE site = "generateUnifiedContent" -> LetterRetries
    [] site = "generateMemoryPortrait" -> ImageRetries
    [] site = "generateLetterVoice" -> VoiceRetries

\* the delay argument of the call site
DelayAt(site) ==
  CASE site = "generateUnifiedContent" -> LetterDelay
    [] site = "generateMemoryPortrait" -> ImageDelay
    [] site = "generateLetterVoice" -> VoiceDelay

InitCalls ==
  /\ fn \in CallSites
  /\ arg = None
  /\ ret = None
  /\ budget0 = RetriesAt(fn)
  /\ delay0 = DelayAt(fn)
  /\ rc = StartCall(budget0, delay0)
  /\ variant = "B"
  /\ apiKey = TRUE
  /\ service = "retried"
  /\ AppInit
  /\ AudioInit

\* every attempt settles and every timer fires
SpecCalls == InitCalls /\ [][NextRetry]_vars /\ WF_vars(NextRetry)

\* ------------------------------------------------------------------------
\* User actions common to both orchestrators
\* ------------------------------------------------------------------------
histVars == <<hist, lastLetter, caught, letterSinceReset, origin, ignored>>
flagVars == <<errorMsg, quotaWait, isImageLoading, isAudioLoading, loadingStep, alerts>>
callVars == <<letterCall, tasks, seq>>

\* mutant: only the name is required
IncompleteNameOnly(m) == m.name = ""

\* !memory.name || !memory.relationship || !memory.detail
Incomplete(m) == m.name = "" \/ m.relationship = "" \/ m.detail = ""

\* onClick of the landing button: setState(AppState.INPUT)
startExperience ==
  /\ state = "landing"
  /\ state' = "input"
  /\ UNCHANGED <<idleVars, memory, result, gen, flagVars, callVars, histVars>>

\* onChange of the inputs of the form, which is rendered in INPUT only;
\* the mood <select> exists in the sequential variant only.  Typing is
\* explored as long as a generation can still be started.
handleInputChange ==
  /\ state = "input"
  /\ gen < MaxGen
  /\ \/ \E v \in Names \ {memory.name} : memory' = [memory EXCEPT !.name = v]
     \/ \E v \in Relationships \ {memory.relationship} :
          memory' = [memory EXCEPT !.relationship = v]
     \/ \E v \in Details \ {memory.detail} : memory' = [memory EXCEPT !.detail = v]
     \/ variant = "A" /\ \E v \in Moods \ {memory.mood} :
          memory' = [memory EXCEPT !.mood = v]
  /\ UNCHANGED <<idleVars, state, result, gen, flagVars, callVars, histVars>>

\* ------------------------------------------------------------------------
\* Background-load orchestrator (variant "B")
\* ------------------------------------------------------------------------

\* mutant: every error that has a message is a quota failure
isQuotaAnyMessage(error) == IsSome(error.message)

\* error?.message?.includes("429") ||
\* error?.message?.toLowerCase().includes("exhausted")
isQuota(error) ==
  /\ IsSome(error.message)
  /\ \/ Includes(Get(error.message), Sub429)
     \/ Includes(ToLowerCase(Get(error.message)), SubExhausted)

\* mutant: the image prompt is stored as the letter
NewResultFromPrompt(unified) ==
  [letter |-> unified.imagePrompt, imageUrl |-> <<>>, audioData |-> None, citations |-> None]

\* mutant: the result is created with an empty audio payload
NewResultEmptyAudio(unified) ==
  [letter |-> unified.letter, imageUrl |-> <<>>, audioData |-> Some(<<>>), citations |-> None]

\* setResult({ letter: unified.letter, imageUrl: '' })
NewResult(unified) ==
  [letter |-> unified.letter, imageUrl |-> <<>>, audioData |-> None, citations |-> None]

\* mutant: no null guard, setResult(prev => ({ ...prev, imageUrl: url }))
PatchImageUnguarded(prev, url) ==
  IF IsSome(prev)
    THEN Some([Get(prev) EXCEPT !.imageUrl = url])
    ELSE Some([letter |-> "", imageUrl |-> url, audioData |-> None, citations |-> None])

\* setResult(prev => prev ? { ...prev, imageUrl: url } : null)
PatchImage(prev, url) ==
  IF IsSome(prev) THEN Some([Get(prev) EXCEPT !.imageUrl = url]) ELSE None

\* mutant: setResult(prev => prev ? { letter: prev.letter, imageUrl: '',
\* audioData: audio } : null)
PatchAudioOnly(prev, audio) ==
  IF IsSome(prev)
    THEN Some([Get(prev) EXCEPT !.audioData = Some(audio), !.imageUrl = <<>>])
    ELSE None

\* setResult(prev => prev ? { ...prev, audioData: audio } : null)
PatchAudio(prev, audio) ==
  IF IsSome(prev) THEN Some([Get(prev) EXCEPT !.audioData = Some(audio)]) ELSE None

\* mutant: the background loads are fired together with the letter request
generateContentEager ==
  /\ variant = "B"
  /\ state = "input"
  /\ IF Incomplete(memory)
       THEN UNCHANGED vars
       ELSE /\ gen < MaxGen
            /\ errorMsg' = None
            /\ quotaWait' = FALSE
            /\ state' = "generating"
            /\ gen' = gen + 1
            /\ letterCall' = StartCall(LetterRetries, LetterDelay)
            /\ tasks' = [tasks EXCEPT ![gen + 1] =
                 [pc |-> "image", call |-> StartCall(ImageRetries, ImageDelay)]]
            /\ hist' = [hist EXCEPT ![gen + 1].letter = "pending", ![gen + 1].image = "pending"]
            /\ caught' = None
            /\ UNCHANGED <<idleVars, memory, result, isImageLoading, isAudioLoading,
                           loadingStep, alerts, seq, lastLetter, letterSinceReset, origin, ignored>>

\* mutant: the error of the previous generation is not cleared
generateContentKeepingError ==
  /\ variant = "B"
  /\ state = "input"
  /\ IF Incomplete(memory)
       THEN UNCHANGED vars
       ELSE /\ gen < MaxGen
            /\ state' = "generating"
            /\ gen' = gen + 1
            /\ letterCall' = IF apiKey THEN StartCall(LetterRetries, LetterDelay) ELSE KeyMissing
            /\ hist' = [hist EXCEPT ![gen + 1].letter = IF apiKey THEN "pending" ELSE "unsent"]
            /\ caught' = None
            /\ UNCHANGED <<idleVars, memory, result, errorMsg, quotaWait, isImageLoading,
                           isAudioLoading, loadingStep, alerts, tasks, seq, lastLetter,
                           letterSinceReset, origin, ignored>>

\* generateContent up to its first await: nothing when a required field is
\* empty, otherwise the letter request is in flight
generateContent ==
  /\ variant = "B"
  /\ state = "input"
  /\ IF Incomplete(memory)
       THEN UNCHANGED vars
       ELSE /\ gen < MaxGen
            /\ errorMsg' = None
            /\ quotaWait' = FALSE
            /\ state' = "generating"
            /\ gen' = gen + 1
            /\ letterCall' = IF apiKey THEN StartCall(LetterRetries, LetterDelay) ELSE KeyMissing
            /\ hist' = [hist EXCEPT ![gen + 1].letter = IF apiKey THEN "pending" ELSE "unsent"]
            /\ caught' = None
            /\ UNCHANGED <<idleVars, memory, result, isImageLoading, isAudioLoading,
                           loadingStep, alerts, tasks, seq, lastLetter, letterSinceReset,
                           origin, ignored>>

\* the catch block of generateContent
LetterCatch(error) ==
  /\ IF isQuota(error)
       THEN /\ quotaWait' = TRUE
            /\ errorMsg' = Some([text |-> QuotaMessage, detail |-> None])
       ELSE /\ quotaWait' = quotaWait
            /\ errorMsg' = Some(LostMessage(error))
  /\ state' = "input"

\* the operation passed to callWithRetry throws e: callWithRetry waits, or
\* rethrows into the catch block of generateContent
LetterFailed(e, reply) ==
  LET c == OnReject(letterCall, e) IN
    /\ IF c.phase = "waiting"
         THEN /\ letterCall' = c
              /\ UNCHANGED <<state, errorMsg, quotaWait, hist, caught>>
         ELSE /\ LetterCatch(c.outcome)
              /\ letterCall' = NoCall
              /\ caught' = Some(c.outcome)
              /\ hist' = [hist EXCEPT ![gen].letter = "failed", ![gen].reply = reply]
    /\ UNCHANGED <<result, isImageLoading, isAudioLoading, tasks, lastLetter,
                   letterSinceReset, origin, ignored>>

\* JSON.parse returned unified: the result is created, the state is REVEAL
\* and loadMultimedia runs up to its first await (the portrait request)
LetterParsed(unified) ==
  /\ result' = Some(NewResult(unified))
  /\ lastLetter' = Some(unified.letter)
  /\ tasks' = [tasks EXCEPT ![gen] =
       [pc |-> "image", call |-> StartCall(ImageRetries, ImageDelay)]]
  /\ state' = "reveal"
  /\ isImageLoading' = TRUE
  /\ isAudioLoading' = TRUE
  /\ letterCall' = NoCall
  /\ letterSinceReset' = TRUE
  /\ hist' = [hist EXCEPT ![gen].letter = "ok", ![gen].image = "pending",
                          ![gen].reply = "text"]
  /\ origin' = [result |-> gen, image |-> 0, audio |-> 0]
  /\ ignored' = FALSE
  /\ UNCHANGED <<errorMsg, quotaWait, caught>>

\* the letter request resolves with a response: JSON.parse(response.text)
\* returns or throws
LetterResolved ==
  /\ variant = "B"
  /\ letterCall.phase = "calling"
  /\ \E text \in UnifiedTexts :
       LET unified == JsonParse(text) IN
         IF IsSome(unified)
           THEN LetterParsed(Get(unified))
           ELSE LetterFailed(ErrNotValidJson, "empty")
  /\ UNCHANGED <<idleVars, memory, gen, loadingStep, alerts, seq>>

\* the letter request rejects
LetterRejected ==
  /\ variant = "B"
  /\ letterCall.phase = "calling"
  /\ \E e \in CallErrors : LetterFailed(e, "none")
  /\ UNCHANGED <<idleVars, memory, gen, loadingStep, alerts, seq>>

\* the backoff timer of the letter request fires
LetterRetried ==
  /\ variant = "B"
  /\ letterCall.phase = "waiting"
  /\ letterCall' = OnTimer(letterCall)
  /\ UNCHANGED <<idleVars, state, memory, result, gen, flagVars, tasks,
                 seq, histVars>>

\* the rejection of generateUnifiedContent by getAI() reaches the catch
LetterKeyMissing ==
  /\ variant = "B"
  /\ letterCall.phase = "config"
  /\ LetterCatch(ErrKeyMissing)
  /\ letterCall' = NoCall
  /\ caught' = Some(ErrKeyMissing)
  /\ hist' = [hist EXCEPT ![gen].letter = "failed"]
  /\ UNCHANGED <<idleVars, memory, result, gen, isImageLoading,
                 isAudioLoading, loadingStep, alerts, tasks, seq, lastLetter,
                 letterSinceReset, origin, ignored>>

\* history: how a background request settled
Settled(ok) == IF ok THEN "ok" ELSE "failed"

\* history: what the response to a voice request carried
Spoken(parts) ==
  IF Len(parts) > 0 /\ IsSome(parts[1].inlineData) THEN "audio" ELSE "empty"

\* loadMultimedia after the portrait request settled: the try or the catch,
\* the finally, then the voice request up to its await
PortraitSettled(g, ok, url) ==
  /\ result' = IF ok THEN PatchImage(result, url) ELSE result
  /\ isImageLoading' = FALSE
  /\ tasks' = [tasks EXCEPT ![g].pc = "voice",
                            ![g].call = StartCall(VoiceRetries, VoiceDelay)]
  /\ hist' = [hist EXCEPT ![g].image = Settled(ok), ![g].voice = "pending"]
  /\ origin' = IF ok /\ IsSome(result) THEN [origin EXCEPT !.image = g] ELSE origin
  /\ ignored' = (ignored \/ (ok /\ result = None))
  /\ UNCHANGED <<state, errorMsg, quotaWait, isAudioLoading>>

\* mutant: a portrait failure sends the user back to the form
PortraitFailedBlocking(g, e) ==
  LET c == OnReject(tasks[g].call, e) IN
    IF c.phase = "waiting"
      THEN /\ tasks' = [tasks EXCEPT ![g].call = c]
           /\ UNCHANGED <<state, result, errorMsg, quotaWait, isImageLoading,
                          isAudioLoading, hist, origin, ignored>>
      ELSE /\ state' = "input"
           /\ isImageLoading' = FALSE
           /\ tasks' = [tasks EXCEPT ![g].pc = "voice",
                                     ![g].call = StartCall(VoiceRetries, VoiceDelay)]
           /\ hist' = [hist EXCEPT ![g].image = "failed", ![g].voice = "pending"]
           /\ UNCHANGED <<result, errorMsg, quotaWait, isAudioLoading, origin, ignored>>

\* the portrait request, or the scan of its parts, throws e
PortraitFailed(g, e) ==
  LET c == OnReject(tasks[g].call, e) IN
    IF c.phase = "waiting"
      THEN /\ tasks' = [tasks EXCEPT ![g].call = c]
           /\ UNCHANGED <<state, result, errorMsg, quotaWait, isImageLoading,
                          isAudioLoading, hist, origin, ignored>>
      ELSE PortraitSettled(g, FALSE, <<>>)

PortraitResponded(g) ==
  /\ variant = "B"
  /\ tasks[g].pc = "image"
  /\ tasks[g].call.phase = "calling"
  /\ \E parts \in ImageResponses :
       LET url == PortraitOfRetried(parts) IN
         IF IsSome(url)
           THEN PortraitSettled(g, TRUE, Get(url))
           ELSE PortraitFailed(g, Err("Error", Some(MsgNoImageData)))
  /\ UNCHANGED <<idleVars, memory, gen, loadingStep, alerts, letterCall,
                 seq, lastLetter, caught, letterSinceReset>>

PortraitRejected(g) ==
  /\ variant = "B"
  /\ tasks[g].pc = "image"
  /\ tasks[g].call.phase = "calling"
  /\ \E e \in MediaErrors : PortraitFailed(g, e)
  /\ UNCHANGED <<idleVars, memory, gen, loadingStep, alerts, letterCall,
                 seq, lastLetter, caught, letterSinceReset>>

PortraitRetried(g) ==
  /\ variant = "B"
  /\ tasks[g].pc = "image"
  /\ tasks[g].call.phase = "waiting"
  /\ tasks' = [tasks EXCEPT ![g].call = OnTimer(@)]
  /\ UNCHANGED <<idleVars, state, memory, result, gen, flagVars,
                 letterCall, seq, histVars>>

\* loadMultimedia after the voice request settled: try or catch, then finally
VoiceSettled(g, ok, audio, spoken) ==
  /\ result' = IF ok THEN PatchAudio(result, audio) ELSE result
  /\ isAudioLoading' = FALSE
  /\ tasks' = [tasks EXCEPT ![g].pc = "done", ![g].call = NoCall]
  /\ hist' = [hist EXCEPT ![g].voice = Settled(ok),
                          ![g].spoken = spoken]
  /\ origin' = IF ok /\ IsSome(result) THEN [origin EXCEPT !.audio = g] ELSE origin
  /\ ignored' = (ignored \/ (ok /\ result = None))
  /\ UNCHANGED <<state, errorMsg, quotaWait, isImageLoading>>

VoiceResponded(g) ==
  /\ variant = "B"
  /\ tasks[g].pc = "voice"
  /\ tasks[g].call.phase = "calling"
  /\ \E parts \in VoiceResponses : VoiceSettled(g, TRUE, VoiceOf(parts), Spoken(parts))
  /\ UNCHANGED <<idleVars, memory, gen, loadingStep, alerts, letterCall,
                 seq, lastLetter, caught, letterSinceReset>>

VoiceRejected(g) ==
  /\ variant = "B"
  /\ tasks[g].pc = "voice"
  /\ tasks[g].call.phase = "calling"
  /\ \E e \in MediaErrors :
       LET c == OnReject(tasks[g].call, e) IN
         IF c.phase = "waiting"
           THEN /\ tasks' = [tasks EXCEPT ![g].call = c]
                /\ UNCHANGED <<state, result, errorMsg, quotaWait, isImageLoading,
                               isAudioLoading, hist, origin, ignored>>
           ELSE VoiceSettled(g, FALSE, <<>>, "none")
  /\ UNCHANGED <<idleVars, memory, gen, loadingStep, alerts, letterCall,
                 seq, lastLetter, caught, letterSinceReset>>

VoiceRetried(g) ==
  /\ variant = "B"
  /\ tasks[g].pc = "voice"
  /\ tasks[g].call.phase = "waiting"
  /\ tasks' = [tasks EXCEPT ![g].call = OnTimer(@)]
  /\ UNCHANGED <<idleVars, state, memory, result, gen, flagVars,
                 letterCall, seq, histVars>>

\* if (audioSourceRef.current) audioSourceRef.current.stop(): the sources
\* after the stop; stopping a source that stopped or ended changes nothing
Stopped(ref) ==
  IF ref # 0 /\ sources[ref] = "playing"
    THEN [sources EXCEPT ![ref] = "stopped"]
    ELSE sources

\* mutant: the reset returns to the form instead of the landing screen
resetToInput ==
  /\ variant = "B"
  /\ state = "reveal"
  /\ state' = "input"
  /\ result' = None
  /\ memory' = EmptyMemory
  /\ errorMsg' = None
  /\ quotaWait' = FALSE
  /\ letterSinceReset' = FALSE
  /\ origin' = NoOrigin
  /\ ignored' = FALSE
  /\ microtasks = <<>>
  /\ sources' = Stopped(audioSourceRef)
  /\ armed' = FALSE
  /\ UNCHANGED <<retryVars, fnVars, variant, apiKey, service, audioContext, audioSourceRef, plays,
                 microtasks, gen, isImageLoading, isAudioLoading,
                 loadingStep, alerts, callVars, hist, lastLetter, caught>>

\* mutant: the reset keeps the memory the user entered
resetKeepingMemory ==
  /\ variant = "B"
  /\ state = "reveal"
  /\ state' = "landing"
  /\ result' = None
  /\ errorMsg' = None
  /\ quotaWait' = FALSE
  /\ letterSinceReset' = FALSE
  /\ origin' = NoOrigin
  /\ ignored' = FALSE
  /\ microtasks = <<>>
  /\ sources' = Stopped(audioSourceRef)
  /\ armed' = FALSE
  /\ UNCHANGED <<retryVars, fnVars, variant, apiKey, service, audioContext, audioSourceRef, plays,
                 microtasks, memory, gen, isImageLoading, isAudioLoading,
                 loadingStep, alerts, callVars, hist, lastLetter, caught>>

\* onClick of "Return to the Garden", rendered in REVEAL only
reset ==
  /\ variant = "B"
  /\ state = "reveal"
  /\ state' = "landing"
  /\ result' = None
  /\ memory' = EmptyMemory
  /\ errorMsg' = None
  /\ quotaWait' = FALSE
  /\ letterSinceReset' = FALSE
  /\ origin' = NoOrigin
  /\ ignored' = FALSE
  /\ microtasks = <<>>
  /\ sources' = Stopped(audioSourceRef)
  /\ armed' = FALSE
  /\ UNCHANGED <<retryVars, fnVars, variant, apiKey, service, audioContext, audioSourceRef, plays,
                 microtasks, gen, isImageLoading, isAudioLoading,
                 loadingStep, alerts, callVars, hist, lastLetter, caught>>

\* ------------------------------------------------------------------------
\* Sequential orchestrator (variant "A"): the requests are not retried
\* ------------------------------------------------------------------------
StepSearching == "Searching for the right words..."
StepCapturing == "Capturing a flickering memory..."
StepVoicing == "Giving the memory a voice..."

\* getAI() of the direct client throws: the key is missing and the client
\* is not the one built when the module loads
KeyChecked == ~apiKey /\ service = "direct-lazy"

\* generateContent up to its first await
generateContentSeq ==
  /\ variant = "A"
  /\ state = "input"
  /\ IF Incomplete(memory)
       THEN UNCHANGED vars
       ELSE /\ gen < MaxGen
            /\ state' = "generating"
            /\ loadingStep' = StepSearching
            /\ gen' = gen + 1
            /\ seq' = [seq EXCEPT !.pc = IF KeyChecked THEN "config" ELSE "letter"]
            /\ hist' = [hist EXCEPT ![gen + 1].letter = IF KeyChecked THEN "unsent" ELSE "pending"]
            /\ caught' = None
            /\ UNCHANGED <<idleVars, memory, result, errorMsg, quotaWait,
                           isImageLoading, isAudioLoading, alerts, letterCall, tasks,
                           lastLetter, letterSinceReset, origin, ignored>>

\* the catch block of generateContent: setState(INPUT) and the alert
SeqCatch(errors) ==
  /\ state' = "input"
  /\ alerts' = alerts + 1
  /\ seq' = SeqIdle
  /\ \E e \in errors : caught' = Some(e)
  /\ UNCHANGED <<idleVars, memory, result, gen, errorMsg, quotaWait,
                 isImageLoading, isAudioLoading, loadingStep, letterCall, tasks,
                 origin, ignored>>

\* the rejection of generateEmotionalLetter by getAI() reaches the catch
SeqKeyMissing ==
  /\ variant = "A"
  /\ seq.pc = "config"
  /\ SeqCatch({ErrKeyMissingEnv})
  /\ hist' = [hist EXCEPT ![gen].letter = "failed"]
  /\ UNCHANGED <<lastLetter, letterSinceReset>>

\* generateEmotionalLetter resolves; the portrait request is sent.  The hosted
\* model answers no request that carries no key.
SeqLetterResolved ==
  /\ variant = "A"
  /\ seq.pc = "letter"
  /\ apiKey
  /\ \E response \in LetterResponses :
       /\ seq' = [seq EXCEPT !.pc = "image", !.letterRes = LetterOf(response)]
       /\ lastLetter' = Some(LetterOf(response).text)
       /\ hist' = [hist EXCEPT ![gen].letter = "ok", ![gen].image = "pending",
                               ![gen].reply = IF response.text = "" THEN "empty"
                                                                    ELSE "text"]
  /\ loadingStep' = StepCapturing
  /\ letterSinceReset' = TRUE
  /\ UNCHANGED <<idleVars, state, memory, result, gen, errorMsg, quotaWait,
                 isImageLoading, isAudioLoading, alerts, letterCall, tasks, origin, ignored,
                 caught>>

SeqLetterRejected ==
  /\ variant = "A"
  /\ seq.pc = "letter"
  /\ SeqCatch(CallErrors)
  /\ hist' = [hist EXCEPT ![gen].letter = "failed"]
  /\ UNCHANGED <<lastLetter, letterSinceReset>>

\* generateMemoryPortrait resolves; the voice request is sent
SeqPortraitResolved ==
  /\ variant = "A"
  /\ seq.pc = "image"
  /\ \E parts \in ImageResponses :
       seq' = [seq EXCEPT !.pc = "voice", !.imageUrl = PortraitOfDirect(parts)]
  /\ loadingStep' = StepVoicing
  /\ hist' = [hist EXCEPT ![gen].image = "ok", ![gen].voice = "pending"]
  /\ UNCHANGED <<idleVars, state, memory, result, gen, errorMsg, quotaWait,
                 isImageLoading, isAudioLoading, alerts, letterCall, tasks,
                 lastLetter, caught, letterSinceReset, origin, ignored>>

\* mutant: a portrait failure is swallowed and the voice request is sent
SeqPortraitRejectedSkipping ==
  /\ variant = "A"
  /\ seq.pc = "image"
  /\ seq' = [seq EXCEPT !.pc = "voice", !.imageUrl = <<>>]
  /\ loadingStep' = StepVoicing
  /\ hist' = [hist EXCEPT ![gen].image = "failed", ![gen].voice = "pending"]
  /\ UNCHANGED <<idleVars, state, memory, result, gen, errorMsg, quotaWait,
                 isImageLoading, isAudioLoading, alerts, letterCall, tasks,
                 lastLetter, caught, letterSinceReset, origin, ignored>>

SeqPortraitRejected ==
  /\ variant = "A"
  /\ seq.pc = "image"
  /\ SeqCatch(CallErrors)
  /\ hist' = [hist EXCEPT ![gen].image = "failed"]
  /\ UNCHANGED <<lastLetter, letterSinceReset>>

\* generateLetterVoice resolves: setResult and setState(REVEAL)
SeqVoiceResolved ==
  /\ variant = "A"
  /\ seq.pc = "voice"
  /\ \E parts \in VoiceResponses :
       /\ result' = Some([ letter |-> seq.letterRes.text,
                           imageUrl |-> seq.imageUrl,
                           audioData |-> Some(VoiceOf(parts)),
                           citations |-> Some(seq.letterRes.citations) ])
       /\ hist' = [hist EXCEPT ![gen].voice = "ok", ![gen].spoken = Spoken(parts)]
  /\ state' = "reveal"
  /\ seq' = SeqIdle
  /\ origin' = [result |-> gen, image |-> gen, audio |-> gen]
  /\ ignored' = FALSE
  /\ UNCHANGED <<idleVars, memory, gen, flagVars, letterCall, tasks,
                 lastLetter, caught, letterSinceReset>>

SeqVoiceRejected ==
  /\ variant = "A"
  /\ seq.pc = "voice"
  /\ SeqCatch(CallErrors)
  /\ hist' = [hist EXCEPT ![gen].voice = "failed"]
  /\ UNCHANGED <<lastLetter, letterSinceReset>>

\* onClick of "Begin Again", rendered in REVEAL only
resetSeq ==
  /\ variant = "A"
  /\ state = "reveal"
  /\ state' = "landing"
  /\ result' = None
  /\ memory' = EmptyMemory
  /\ letterSinceReset' = FALSE
  /\ origin' = NoOrigin
  /\ ignored' = FALSE
  /\ microtasks = <<>>
  /\ sources' = Stopped(audioSourceRef)
  /\ armed' = FALSE
  /\ UNCHANGED <<retryVars, fnVars, variant, apiKey, service, audioContext, audioSourceRef, plays,
                 microtasks, gen, flagVars, callVars, hist, lastLetter, caught>>

\* ------------------------------------------------------------------------
\* The application
\* ------------------------------------------------------------------------
Next ==
  \/ startExperience
  \/ handleInputChange
  \/ generateContent
  \/ LetterResolved
  \/ LetterRejected
  \/ LetterRetried
  \/ LetterKeyMissing
  \/ \E g \in Gens : PortraitResponded(g)
  \/ \E g \in Gens : PortraitRejected(g)
  \/ \E g \in Gens : PortraitRetried(g)
  \/ \E g \in Gens : VoiceResponded(g)
  \/ \E g \in Gens : VoiceRejected(g)
  \/ \E g \in Gens : VoiceRetried(g)
  \/ reset
  \/ generateContentSeq
  \/ SeqLetterResolved
  \/ SeqLetterRejected
  \/ SeqKeyMissing
  \/ SeqPortraitResolved
  \/ SeqPortraitRejected
  \/ SeqVoiceResolved
  \/ SeqVoiceRejected
  \/ resetSeq

Spec == Init /\ [][Next]_vars

\* ------------------------------------------------------------------------
\* The voice request and the audio playback (specification SpecAudio)
\*
\* playAudio has two awaits.  ctx.resume() is settled by the audio system in
\* a later task, so user events may run before its continuation; a browser
\* may settle several pending resume() promises in one task.  decodeAudio
\* has no await of its own: its promise is settled when it returns and the
\* continuation of playAudio is a promise reaction of the same task, which
\* runs before any user event but after the reactions queued before it.
\* ------------------------------------------------------------------------
CompleteMemory ==
  [name |-> "Anna", relationship |-> "grandmother", detail |-> "smell of cinnamon",
   mood |-> "nostalgic"]

\* a first generation whose letter and portrait requests succeeded and whose
\* voice request is in flight: the sequential orchestrator is in GENERATING,
\* the background-load one in REVEAL
InitAudio ==
  /\ variant \in {"A", "B"}
  /\ apiKey = TRUE
  /\ service \in Services(variant)
  /\ state = IF variant = "A" THEN "generating" ELSE "reveal"
  /\ memory = CompleteMemory
  /\ result = IF variant = "A"
                THEN None
                ELSE Some([NewResult([letter |-> "Dear one", imagePrompt |-> "an empty chair"])
                             EXCEPT !.imageUrl = DataUri("iVBOR1")])
  /\ errorMsg = None
  /\ quotaWait = FALSE
  /\ isImageLoading = FALSE
  /\ isAudioLoading = (variant = "B")
  /\ loadingStep = IF variant = "A" THEN StepVoicing ELSE ""
  /\ alerts = 0
  /\ gen = 1
  /\ letterCall = NoCall
  /\ tasks = [g \in Gens |-> IF variant = "B" /\ g = 1
                               THEN [pc |-> "voice", call |-> StartCall(VoiceRetries, VoiceDelay)]
                               ELSE NoTask]
  /\ seq = IF variant = "A"
             THEN [pc |-> "voice", letterRes |-> [text |-> "Dear one", citations |-> <<>>],
                   imageUrl |-> DataUri("iVBOR1")]
             ELSE SeqIdle
  /\ hist = [g \in Gens |-> IF g = 1
                               THEN [NoHist EXCEPT !.letter = "ok", !.image = "ok",
                                                   !.voice = "pending", !.reply = "text"]
                               ELSE NoHist]
  /\ lastLetter = Some("Dear one")
  /\ caught = None
  /\ letterSinceReset = TRUE
  /\ origin = IF variant = "A" THEN NoOrigin ELSE [result |-> 1, image |-> 1, audio |-> 0]
  /\ ignored = FALSE
  /\ RetryIdle
  /\ AudioInit
  /\ FnIdle

\* the continuations invoked so far
Invoked == {i \in Plays : plays[i].pc # "none"}

\* the elements of a set of continuations, in the order of their invocation
RECURSIVE InOrder(_)
InOrder(S) ==
  IF S = {} THEN <<>>
  ELSE LET i == Min(S) IN <<i>> \o InOrder(S \ {i})

\* mutant: result == null || result.audioData == null
NoAudioDataNullOnly(r) ==
  \/ r = None
  \/ Get(r).audioData = None

\* !result?.audioData: the result is null, or its audioData is undefined or ''
NoAudioData(r) ==
  \/ r = None
  \/ Get(r).audioData = None
  \/ Get(Get(r).audioData) = <<>>

\* playAudio up to its first await (it is the onClick of the play button of
\* the REVEAL screen).  !result?.audioData returns at once; a context that
\* is created reports "suspended" or "running", as the browser decides.
playAudio ==
  /\ microtasks = <<>>
  /\ IF NoAudioData(result)
       THEN UNCHANGED <<audioVars>>
       ELSE /\ Cardinality(Invoked) < MaxPlay
            /\ LET i == Cardinality(Invoked) + 1
                    audio == Get(Get(result).audioData)
               IN \E ctx \in (IF audioContext = "null" THEN {"suspended", "running"}
                                                       ELSE {audioContext}) :
                    /\ audioContext' = ctx
                    /\ armed' = TRUE
                    /\ audioSourceRef' = audioSourceRef
                    /\ IF ctx = "suspended"
                         THEN /\ plays' = [plays EXCEPT ![i] = [pc |-> "resume", audioData |-> audio, buffer |-> None]]
                              /\ UNCHANGED <<sources, microtasks>>
                         ELSE /\ plays' = [plays EXCEPT ![i] = [pc |-> "decode", audioData |-> audio, buffer |-> None]]
                              /\ sources' = Stopped(audioSourceRef)
                              /\ microtasks' = Append(microtasks, i)
  /\ UNCHANGED <<retryVars, fnVars, appVars>>

\* the audio system settles the resume() promises of the continuations in S
\* in one task: each continuation stops the current source, calls
\* decodeAudio and suspends on its promise
ResumeResolved(S) ==
  /\ S # {}
  /\ \A i \in S : plays[i].pc = "resume"
  /\ microtasks = <<>>
  /\ audioContext' = "running"
  /\ sources' = Stopped(audioSourceRef)
  /\ plays' = [i \in Plays |-> IF i \in S THEN [plays[i] EXCEPT !.pc = "decode"] ELSE plays[i]]
  /\ microtasks' = InOrder(S)
  /\ UNCHANGED <<retryVars, fnVars, appVars, audioSourceRef, armed>>

\* the first pending reaction runs: the promise of decodeAudio rejected (and
\* playAudio ends), or source.start() and audioSourceRef.current = source
DecodeResolved ==
  /\ microtasks # <<>>
  /\ LET i == Head(microtasks) IN
       IF decodeAudio(plays[i].audioData).buffer = None
         THEN /\ plays' = [plays EXCEPT ![i].pc = "failed"]
              /\ UNCHANGED <<sources, audioSourceRef>>
         ELSE /\ plays' = [plays EXCEPT ![i].pc = "done",
                                         ![i].buffer = decodeAudio(plays[i].audioData).buffer]
              /\ sources' = [sources EXCEPT ![i] = "playing"]
              /\ audioSourceRef' = i
  /\ microtasks' = Tail(microtasks)
  /\ UNCHANGED <<retryVars, fnVars, appVars, audioContext, armed>>

\* a source plays its buffer to the end
SourceEnded(s) ==
  /\ sources[s] = "playing"
  /\ microtasks = <<>>
  /\ sources' = [sources EXCEPT ![s] = "ended"]
  /\ UNCHANGED <<retryVars, fnVars, appVars, audioContext, audioSourceRef, plays,
                 microtasks, armed>>

NextAudio ==
  \/ \E g \in Gens : VoiceResponded(g)
  \/ \E g \in Gens : VoiceRejected(g)
  \/ \E g \in Gens : VoiceRetried(g)
  \/ SeqVoiceResolved
  \/ SeqVoiceRejected
  \/ playAudio
  \/ \E S \in SUBSET Plays : ResumeResolved(S)
  \/ DecodeResolved
  \/ \E s \in Plays : SourceEnded(s)
  \/ reset
  \/ resetSeq

SpecAudio == InitAudio /\ [][NextAudio]_vars

\* ------------------------------------------------------------------------
\* The functions of the generation client on their own (specification
\* SpecClient): an argument is drawn and the function is applied to it
\* ------------------------------------------------------------------------
RECURSIVE SeqsUpTo(_, _)
\* the sequences of at most n elements of S
SeqsUpTo(S, n) ==
  IF n = 0 THEN {<<>>}
  ELSE LET shorter == SeqsUpTo(S, n - 1)
       IN shorter \cup {Append(q, x) : q \in {r \in shorter : Len(r) = n - 1}, x \in S}

\* content parts of the response to an image request
PartKinds == {TextPart, InlinePart("iVBOR1"), InlinePart("iVBOR2")}

\* grounding chunks: without a web entry, well-formed, without title,
\* without URI
ChunkKinds ==
  { [web |-> None],
    [web |-> Some([title |-> "Blizzard", uri |-> "https://a"])],
    [web |-> Some([title |-> "Storm", uri |-> "https://c"])],
    [web |-> Some([title |-> "", uri |-> "https://b"])],
    [web |-> Some([title |-> "News", uri |-> ""])] }

\* byte values at the ends and in the middle of the range
ByteKinds == {0, 64, 127, 128, 192, 255}

\* the base64 text of a byte sequence, as the hosted model sends it
Btoa(bytes) ==
  LET n == Len(bytes)
      B(i) == IF i <= n THEN bytes[i] ELSE 0
      Group(g) == B(3 * g + 1) * 65536 + B(3 * g + 2) * 256 + B(3 * g + 3)
      Sextet(k) == LET g == (k - 1) \div 4
                       r == (k - 1) % 4
                   IN CASE r = 0 -> Group(g) \div 262144
                        [] r = 1 -> (Group(g) \div 4096) % 64
                        [] r = 2 -> (Group(g) \div 64) % 64
                        [] r = 3 -> Group(g) % 64
  IN [k \in 1..(4 * ((n + 2) \div 3)) |->
        IF k <= (8 * n + 5) \div 6 THEN Base64Chars[Sextet(k) + 1] ELSE "="]

InitClient ==
  /\ \/ /\ fn \in {"generateMemoryPortrait", "generateMemoryPortraitDirect"}
        /\ arg \in SeqsUpTo(PartKinds, MaxParts)
     \/ /\ fn = "generateEmotionalLetter"
        /\ arg \in [text : {"", "Dear one"}, chunks : SeqsUpTo(ChunkKinds, MaxChunks)]
     \/ /\ fn = "decodeAudio"
        /\ arg \in {[bytes |-> b, base64 |-> Btoa(b)] : b \in SeqsUpTo(ByteKinds, MaxBytes)}
  /\ ret = None
  /\ variant = "B"
  /\ apiKey = TRUE
  /\ service = "retried"
  /\ AppInit
  /\ RetryIdle
  /\ AudioInit

\* part_000 generateMemoryPortrait answered by a response with these parts:
\* the state of its callWithRetry when the operation returns or throws
ApplyPortraitRetried ==
  /\ fn = "generateMemoryPortrait"
  /\ ret = None
  /\ LET c == StartCall(ImageRetries, ImageDelay)
         url == PortraitOfRetried(arg)
     IN ret' = Some(IF IsSome(url)
                      THEN OnResolve(c, Get(url))
                      ELSE OnReject(c, Err("Error", Some(MsgNoImageData))))
  /\ UNCHANGED <<fn, arg, retryVars, appVars, audioVars>>

\* geminiService.ts generateMemoryPortrait answered by these parts
ApplyPortraitDirect ==
  /\ fn = "generateMemoryPortraitDirect"
  /\ ret = None
  /\ ret' = Some(PortraitOfDirect(arg))
  /\ UNCHANGED <<fn, arg, retryVars, appVars, audioVars>>

\* geminiService.ts generateEmotionalLetter answered by this response
ApplyLetter ==
  /\ fn = "generateEmotionalLetter"
  /\ ret = None
  /\ ret' = Some(LetterOf(arg))
  /\ UNCHANGED <<fn, arg, retryVars, appVars, audioVars>>

\* decodeAudio(base64, ctx)
ApplyDecodeAudio ==
  /\ fn = "decodeAudio"
  /\ ret = None
  /\ ret' = Some(decodeAudio(arg.base64))
  /\ UNCHANGED <<fn, arg, retryVars, appVars, audioVars>>

NextClient ==
  \/ ApplyPortraitRetried
  \/ ApplyPortraitDirect
  \/ ApplyLetter
  \/ ApplyDecodeAudio

SpecClient == InitClient /\ [][NextClient]_vars

\* ------------------------------------------------------------------------
\* Properties of callWithRetry (specification SpecRetry)
\* ------------------------------------------------------------------------
RECURSIVE Pow2(_)
Pow2(n) == IF n = 0 THEN 1 ELSE 2 * Pow2(n - 1)

AllRateLimit(errs) == \A i \in 1..Len(errs) : errs[i] \in RateLimitErrors

\* C1: an attempt that fails with an error without the rate-limit signature
\* is the last attempt: the wrapper has thrown, the operation was invoked
\* exactly as many times as there are failures so far, and when that attempt
\* is the first one the operation was invoked once and nothing was waited.
C1_NonRateLimitNeverRetried ==
  \A i \in 1..Len(rc.errs) :
    rc.errs[i] \in OtherErrors =>
      /\ i = Len(rc.errs)
      /\ rc.phase = "thrown"
      /\ rc.calls = i
      /\ Len(rc.waits) = i - 1
      /\ (i = 1 => rc.calls = 1 /\ rc.waits = <<>>)

\* budget remains, the first attempt fails with a message-less error
C1_Witness ==
  /\ rc.phase = "thrown"
  /\ rc.retries > 0
  /\ rc.calls = 1
  /\ rc.errs = <<Err("Error", None)>>

\* C2: with budget N and initial delay d, when every attempt failed with a
\* rate-limit error the operation was invoked N+1 times, N waits occurred
\* and the k-th wait lasted d * 2^(k-1); the wrapper throws right after the
\* last attempt, without waiting again.
C2_ExhaustedBudget ==
  AllRateLimit(rc.errs) =>
    /\ rc.calls <= budget0 + 1
    /\ \A k \in 1..Len(rc.waits) : rc.waits[k] = delay0 * Pow2(k - 1)
    /\ rc.phase = "thrown" =>
         /\ rc.calls = budget0 + 1
         /\ Len(rc.errs) = budget0 + 1
         /\ Len(rc.waits) = budget0
    /\ rc.phase = "waiting" => Len(rc.waits) < budget0

C2_Witness ==
  /\ rc.phase = "thrown"
  /\ AllRateLimit(rc.errs)
  /\ budget0 = MaxBudget
  /\ Len(rc.waits) = MaxBudget

\* C3: when the wrapper fails, the error it raises is the error raised by
\* the last attempt it made.
C3_PropagatesLastError ==
  rc.phase = "thrown" => rc.outcome = rc.errs[Len(rc.errs)]

\* the budget ran out on a rate-limit error that differs from the first one
C3_Witness ==
  /\ rc.phase = "thrown"
  /\ rc.retries = 0
  /\ Len(rc.errs) >= 2
  /\ rc.errs[Len(rc.errs)] \in RateLimitErrors
  /\ rc.errs[1] # rc.errs[Len(rc.errs)]

\* C31: when an attempt succeeds the wrapper returns the value of that
\* attempt, and from then on the operation is not invoked and nothing is
\* waited.  When attempt k+1 is the first success, the k attempts before it
\* failed with rate-limit errors, k is at most the budget, the operation was
\* invoked exactly k+1 times and the waits were d, 2d, ..., 2^(k-1)*d.
C31_FirstSuccessEndsRetries ==
  [][/\ (rc.phase = "calling" /\ rc'.phase = "returned") =>
          /\ rc'.outcome \in {"v1", "v2"}
          /\ rc'.calls = rc.calls
          /\ rc'.waits = rc.waits
          /\ rc'.errs = rc.errs
     /\ rc.phase = "returned" => rc' = rc
     /\ rc'.phase = "returned" =>
          LET k == Len(rc'.errs) IN
            /\ k <= budget0
            /\ \A i \in 1..k : rc'.errs[i] \in RateLimitErrors
            /\ rc'.calls = k + 1
            /\ Len(rc'.waits) = k
            /\ \A i \in 1..k : rc'.waits[i] = Pow2(i - 1) * delay0]_vars

\* the third attempt succeeded, with budget to spare
C31_Witness ==
  /\ rc.phase = "returned"
  /\ budget0 = 3
  /\ delay0 = 5000
  /\ rc.calls = 3
  /\ rc.waits = <<5000, 10000>>
  /\ rc.outcome = "v2"

\* the last attempt the budget allows succeeded
C31_WitnessLastAttempt ==
  /\ rc.phase = "returned"
  /\ budget0 = MaxBudget
  /\ rc.calls = MaxBudget + 1
  /\ rc.retries = 0

\* ------------------------------------------------------------------------
\* Properties of the call sites (specification SpecCalls)
\* ------------------------------------------------------------------------
BudgetOf(site) ==
  CASE site = "generateUnifiedContent" -> 3
    [] site = "generateMemoryPortrait" -> 2
    [] site = "generateLetterVoice" -> 1

FirstDelayOf(site) ==
  CASE site = "generateUnifiedContent" -> 4000
    [] site = "generateMemoryPortrait" -> 5000
    [] site = "generateLetterVoice" -> 6000

\* C25: whatever the attempts do, the hosted model is invoked at most 4
\* times for a letter generation, 3 times for an image generation and 2
\* times for a voice synthesis; the first wait lasts 4000, 5000 and 6000 ms;
\* a wait follows an attempt only while fewer attempts than that were made;
\* and when every attempt settles the operation settles.
C25_RetryBudgetsPerCall ==
  /\ [](/\ rc.calls <= BudgetOf(fn) + 1
        /\ Len(rc.errs) <= rc.calls
        /\ Len(rc.waits) >= 1 => rc.waits[1] = FirstDelayOf(fn)
        /\ rc.phase = "waiting" => rc.calls <= BudgetOf(fn)
        /\ rc.phase \in {"returned", "thrown"} => rc.calls <= BudgetOf(fn) + 1)
  /\ <>(rc.phase \in {"returned", "thrown"})

\* a letter generation used its whole budget
C25_Witness ==
  /\ fn = "generateUnifiedContent"
  /\ rc.phase = "thrown"
  /\ rc.calls = 4
  /\ rc.waits = <<4000, 8000, 16000>>

\* ------------------------------------------------------------------------
\* Properties of the orchestrators (specification Spec)
\* ------------------------------------------------------------------------

\* the portrait or the voice request of generation g settles in this step
BackgroundSettles(g) ==
  /\ variant = "B"
  /\ tasks[g].pc \in {"image", "voice"}
  /\ hist'[g] # hist[g]

\* the portrait or the voice request of generation g fails in this step
MediaFails(g) ==
  \/ hist[g].image = "pending" /\ hist'[g].image = "failed"
  \/ hist[g].voice = "pending" /\ hist'[g].voice = "failed"

\* the letter request of the current generation succeeds / fails in this step
LetterSucceeds == gen > 0 /\ hist[gen].letter = "pending" /\ hist'[gen].letter = "ok"
LetterFails ==
  gen > 0 /\ hist[gen].letter \in {"pending", "unsent"} /\ hist'[gen].letter = "failed"

\* C4: a background portrait or voice request that settles while the result
\* is null (the user has reset) leaves the result null and the screen state
\* unchanged.
C4_LateCompletionKeepsNull ==
  [][\A g \in Gens :
       (BackgroundSettles(g) /\ result = None) => (result' = None /\ state' = state)]_vars

\* after the reset of the only generation its portrait resolved successfully
C4_Witness ==
  /\ variant = "B"
  /\ gen = 1
  /\ result = None
  /\ ignored
  /\ hist[1].image = "ok"

\* C5: the imageUrl and the audioData of the result are only ever written by
\* requests started for the generation that built the result: a completion
\* of a generation that was reset is ignored.
C5_StaleCompletionIgnored ==
  IsSome(result) =>
    /\ origin.image \in {0, origin.result}
    /\ origin.audio \in {0, origin.result}

\* C6: in both variants the portrait and the voice request of a generation
\* are started only once its letter request has succeeded, and never when
\* the letter request failed.
C6_LetterBeforeMedia ==
  \A g \in Gens :
    /\ (hist[g].image # "none" \/ hist[g].voice # "none") => hist[g].letter = "ok"
    /\ hist[g].voice # "none" => hist[g].image \in {"ok", "failed"}
    /\ hist[g].letter \in {"none", "pending", "unsent", "failed"} =>
         (hist[g].image = "none" /\ hist[g].voice = "none")

\* one generation failed at the letter, another one reached its voice request
C6_Witness ==
  \E g, h \in Gens :
    /\ hist[g].letter = "failed"
    /\ hist[h].letter = "ok"
    /\ hist[h].voice = "pending"

\* C7: the result is non-null only if a letter request succeeded since the
\* last reset, and its letter is the text of the most recent successful
\* letter request.
C7_ResultHasLatestLetter ==
  IsSome(result) =>
    /\ letterSinceReset
    /\ IsSome(lastLetter)
    /\ Get(result).letter = Get(lastLetter)

\* the result of a second generation, patched by a background completion
C7_Witness ==
  /\ IsSome(result)
  /\ origin.result = 2
  /\ origin.image # 0
  /\ Len(Get(result).imageUrl) > 0

\* C8: in the background-load variant the success of the letter request in
\* GENERATING makes the state REVEAL in that very step, with a result that
\* holds the returned letter, an empty imageUrl and no audioData; the
\* portrait request is still unresolved and the voice request not started.
C8_RevealOnLetter ==
  [][(variant = "B" /\ LetterSucceeds) =>
       /\ state = "generating"
       /\ state' = "reveal"
       /\ IsSome(result')
       /\ Get(result').letter = Get(lastLetter')
       /\ Get(result').imageUrl = <<>>
       /\ Get(result').audioData = None
       /\ hist'[gen].image = "pending"
       /\ hist'[gen].voice = "none"
       /\ tasks'[gen].pc = "image"
       /\ tasks'[gen].call.phase = "calling"]_vars

C8_Witness ==
  /\ variant = "B"
  /\ state = "reveal"
  /\ IsSome(result)
  /\ Get(result).imageUrl = <<>>
  /\ Get(result).audioData = None
  /\ hist[gen].image = "pending"
  /\ tasks[gen].call.calls = 1

\* C9: in the background-load variant the failure of the letter request in
\* GENERATING returns the state to INPUT without a result; the quota-wait
\* flag and the wait-oriented message are set exactly when the error carries
\* the rate-limit signature, otherwise the connection-lost message is set
\* and the flag stays false.
C9_LetterFailureClassified ==
  [][(variant = "B" /\ LetterFails) =>
       /\ state = "generating"
       /\ state' = "input"
       /\ result' = None
       /\ IsSome(caught')
       /\ IF Get(caught') \in RateLimitErrors
            THEN /\ quotaWait' = TRUE
                 /\ errorMsg' = Some([text |-> QuotaMessage, detail |-> None])
            ELSE /\ quotaWait' = FALSE
                 /\ errorMsg' = Some([text |-> LostPrefix,
                                      detail |-> Get(caught').message])]_vars

\* a failure whose signature is the upper-case "EXHAUSTED"
C9_Witness ==
  /\ variant = "B"
  /\ state = "input"
  /\ quotaWait
  /\ caught = Some(Err("ApiError", Some(MsgResourceExhausted)))

Transitions ==
  { <<"landing", "input">>, <<"input", "generating">>, <<"generating", "reveal">>,
    <<"generating", "input">>, <<"reveal", "landing">> }

\* C11: the screen state changes only by LANDING->INPUT, INPUT->GENERATING
\* (with a complete memory, and a generation starts), GENERATING->REVEAL,
\* GENERATING->INPUT and REVEAL->LANDING (which clears the result).  In the
\* background-load orchestrator GENERATING->REVEAL happens exactly when the
\* letter request succeeds and GENERATING->INPUT exactly when it fails, and
\* a portrait or voice request that settles, which is always after the state
\* has left GENERATING for that generation, never changes the state.
C11_OnlyFiveTransitions ==
  [][/\ state' # state =>
          /\ <<state, state'>> \in Transitions
          /\ (state = "input") => (~Incomplete(memory) /\ gen' = gen + 1)
          /\ (state = "reveal") => (result' = None)
          /\ (state = "landing") => (result = None /\ result' = None)
     /\ variant = "B" =>
          /\ (state = "generating" /\ state' = "reveal") <=> LetterSucceeds
          /\ (state = "generating" /\ state' = "input") <=> LetterFails
          /\ \A g \in Gens :
               BackgroundSettles(g) =>
                 /\ state' = state
                 /\ hist[g].letter = "ok"
                 /\ ~(g = gen /\ state = "generating")]_vars

\* the portrait of the first generation resolved while the second generation,
\* started after a reset, was in GENERATING
C11_Witness ==
  /\ variant = "B"
  /\ gen = 2
  /\ state = "generating"
  /\ ignored
  /\ hist[1].image = "ok"
  /\ hist[2].letter = "pending"

\* C15: in every step taken from the form while name, relationship or detail
\* is empty (an invocation of generateContent is such a step) the state, the
\* error message, the quota flag, the loading step and the requests are
\* unchanged and no generation starts; the loading flags of the background
\* loads change only when a background request settles.  The mood is always
\* one of the four allowed values, and a generation starts only with all
\* four fields present.
C15_IncompleteMemoryIsNoOp ==
  [][/\ (state = "input" /\
          (memory.name = "" \/ memory.relationship = "" \/ memory.detail = "")) =>
            /\ state' = state
            /\ gen' = gen
            /\ result' = result
            /\ errorMsg' = errorMsg
            /\ quotaWait' = quotaWait
            /\ loadingStep' = loadingStep
            /\ alerts' = alerts
            /\ letterCall' = letterCall
            /\ seq' = seq
            /\ \A g \in Gens : hist'[g].letter = hist[g].letter
            /\ (isImageLoading' # isImageLoading \/ isAudioLoading' # isAudioLoading) =>
                 \E g \in Gens : BackgroundSettles(g)
     /\ memory.mood \in {"nostalgic", "bittersweet", "hopeful", "grieving"}
     /\ memory'.mood \in {"nostalgic", "bittersweet", "hopeful", "grieving"}
     /\ gen' # gen =>
          /\ state = "input"
          /\ state' = "generating"
          /\ memory.name # ""
          /\ memory.relationship # ""
          /\ memory.detail # ""
          /\ memory' = memory]_vars

\* after a failed generation the user emptied a field: the form shows the
\* error message and a submit must leave it there
C15_Witness ==
  /\ variant = "B"
  /\ state = "input"
  /\ gen = 1
  /\ IsSome(errorMsg)
  /\ memory.name # ""
  /\ memory.detail = ""

\* C14: with the API key absent, no request is ever sent to the hosted
\* model (every generation fails before it), the retry wrapper never invokes
\* an operation, the REVEAL screen is never reached, and the failure the
\* orchestrator catches is the configuration error, surfaced as the generic
\* failure and never as the quota one.
C14_MissingKeyFailsFast ==
  ~apiKey =>
    /\ \A g \in Gens :
         /\ hist[g].letter \in {"none", "unsent", "failed"}
         /\ hist[g].image = "none"
         /\ hist[g].voice = "none"
    /\ letterCall.calls = 0
    /\ letterCall.waits = <<>>
    /\ state # "reveal"
    /\ result = None
    /\ ~quotaWait
    /\ IsSome(caught) =>
         /\ Get(caught) \in {ErrKeyMissing, ErrKeyMissingEnv}
         /\ variant = "B" =>
              errorMsg = Some([text |-> LostPrefix, detail |-> Some(MsgApiKeyMissing)])
         /\ variant = "A" => alerts > 0

\* C18: when the hosted model answers the letter request without a text,
\* the letter operation succeeds with the fallback letter, in either
\* orchestrator: the generation is not failed by it and the result it builds
\* carries the fallback letter, which is not empty.
C18_EmptyTextFallsBack ==
  \A g \in Gens :
    hist[g].reply = "empty" =>
      /\ hist[g].letter = "ok"
      /\ g = gen => lastLetter = Some("I couldn't find the words just yet...")
      /\ (IsSome(result) /\ origin.result = g) =>
           /\ Get(result).letter = "I couldn't find the words just yet..."
           /\ Get(result).letter # ""

\* the portrait / voice request of generation g settles in this step
ImageFails(g) == hist[g].image = "pending" /\ hist'[g].image = "failed"
ImageSucceeds(g) == hist[g].image = "pending" /\ hist'[g].image = "ok"
VoiceFails(g) == hist[g].voice = "pending" /\ hist'[g].voice = "failed"
VoiceSucceeds(g) == hist[g].voice = "pending" /\ hist'[g].voice = "ok"

\* C22: background loading.  A failure of the portrait request writes
\* nothing to the result (its imageUrl is not set by that request) and the
\* voice request is sent in the same step; a failure of the voice request
\* writes nothing to the result (audioData stays unset, a stored imageUrl
\* stays); a success of either writes its own field only and keeps the
\* letter and the other field.
C22_BackgroundLoadsIndependent ==
  [][variant = "B" =>
       \A g \in Gens :
         /\ ImageFails(g) =>
              /\ result' = result
              /\ tasks'[g] = [pc |-> "voice", call |-> StartCall(1, 6000)]
              /\ hist'[g].voice = "pending"
         /\ VoiceFails(g) =>
              /\ result' = result
              /\ hist[g].image \in {"ok", "failed"}
         /\ ImageSucceeds(g) =>
              /\ IsSome(result') = IsSome(result)
              /\ IsSome(result) =>
                   /\ Get(result').imageUrl # <<>>
                   /\ Get(result').letter = Get(result).letter
                   /\ Get(result').audioData = Get(result).audioData
              /\ hist'[g].voice = "pending"
         /\ VoiceSucceeds(g) =>
              /\ IsSome(result') = IsSome(result)
              /\ IsSome(result) =>
                   /\ Get(result').audioData # None
                   /\ Get(result').letter = Get(result).letter
                   /\ Get(result').imageUrl = Get(result).imageUrl]_vars

\* the portrait request failed and the voice request stored its payload
C22_Witness ==
  /\ variant = "B"
  /\ gen = 1
  /\ IsSome(result)
  /\ hist[1].image = "failed"
  /\ hist[1].voice = "ok"
  /\ Get(result).imageUrl = <<>>
  /\ Get(result).audioData = Some(AudioSamples)

\* the voice request failed after the portrait was stored
C22_WitnessVoiceFailed ==
  /\ variant = "B"
  /\ gen = 1
  /\ IsSome(result)
  /\ hist[1].image = "ok"
  /\ hist[1].voice = "failed"
  /\ Get(result).imageUrl # <<>>
  /\ Get(result).audioData = None

\* C23: background loading.  Once a generation is revealed its portrait
\* request and its voice request are both in flight, so that either may
\* complete first: while the portrait request is pending the voice request
\* has been sent too.
C23_MediaCallsBothInFlight ==
  variant = "B" =>
    \A g \in Gens :
      hist[g].image = "pending" => hist[g].voice # "none"

\* C24: in the sequential orchestrator the state goes from GENERATING to
\* REVEAL only in the step in which the voice request succeeds, after the
\* letter request and then the portrait request of that generation have
\* succeeded; the result stored in that step carries the letter and the
\* citations the letter request returned, the URL the portrait request
\* returned and the payload of the voice request.  The requests of a
\* generation are sent one after the other, each after the success of the
\* one before.
C24_SequentialRevealAfterAllThree ==
  [][variant = "A" =>
       /\ (state = "generating" /\ state' = "reveal") =>
            /\ hist[gen].letter = "ok"
            /\ hist[gen].image = "ok"
            /\ hist[gen].voice = "pending"
            /\ hist'[gen].voice = "ok"
            /\ result = None
            /\ IsSome(result')
            /\ Get(result').letter = seq.letterRes.text
            /\ Some(Get(result').letter) = lastLetter
            /\ Get(result').citations = Some(seq.letterRes.citations)
            /\ Get(result').imageUrl = seq.imageUrl
            /\ Get(result').audioData \in {Some(VoiceOf(parts)) : parts \in VoiceResponses}
       /\ \A g \in Gens :
            /\ hist'[g].image # "none" => hist'[g].letter = "ok"
            /\ hist'[g].voice # "none" => hist'[g].image = "ok"
            /\ (hist[g].image = "none" /\ hist'[g].image # "none") =>
                 (hist[g].letter = "pending" /\ hist'[g].image = "pending")
            /\ (hist[g].voice = "none" /\ hist'[g].voice # "none") =>
                 (hist[g].image = "pending" /\ hist'[g].voice = "pending")]_vars

\* the sequential orchestrator revealed a letter with citations, a portrait
\* and a voice payload
C24_Witness ==
  /\ variant = "A"
  /\ state = "reveal"
  /\ IsSome(result)
  /\ Get(result).letter = "My child"
  /\ Get(result).citations = Some(<<[title |-> "Blizzard", uri |-> "https://a"]>>)
  /\ Get(result).imageUrl = <<"data:image/png;base64,", "iVBOR2">>
  /\ Get(result).audioData = Some(AudioSamples)
  /\ hist[gen].letter = "ok"
  /\ hist[gen].image = "ok"
  /\ hist[gen].voice = "ok"

\* C27: a reset, whatever happened before it, leaves the state LANDING, no
\* result, the memory with empty name, relationship and detail and mood
\* nostalgic, no error message and the quota-wait flag false, and that is
\* so whenever the state is LANDING.  No generation starts in LANDING, the
\* memory is only edited on the form, and a generation starts only with the
\* three text fields filled: after a reset they must be entered again.
C27_ResetRestoresInitialState ==
  [][/\ (state # "landing" /\ state' = "landing") =>
          /\ state = "reveal"
          /\ result' = None
          /\ memory' = [name |-> "", relationship |-> "", detail |-> "", mood |-> "nostalgic"]
          /\ errorMsg' = None
          /\ quotaWait' = FALSE
     /\ state = "landing" =>
          /\ result = None
          /\ memory = [name |-> "", relationship |-> "", detail |-> "", mood |-> "nostalgic"]
          /\ errorMsg = None
          /\ quotaWait = FALSE
          /\ gen' = gen
          /\ memory' = memory
     /\ memory' # memory => (state = "input" \/ state' = "landing")
     /\ gen' # gen =>
          /\ state = "input"
          /\ memory.name # ""
          /\ memory.relationship # ""
          /\ memory.detail # ""]_vars

\* after a reset with the portrait request still in flight
C27_Witness ==
  /\ state = "landing"
  /\ gen = 1
  /\ variant = "B"
  /\ hist[1].image = "pending"
  /\ memory = EmptyMemory
  /\ result = None

\* a second generation was started after the reset
C27_WitnessSecondGeneration ==
  /\ gen = 2
  /\ state = "generating"
  /\ hist[1].letter = "ok"
  /\ memory.name = "Anna"

\* C28: in every reachable state of either orchestrator the state is REVEAL
\* if and only if the result is not null, whichever way submits, resets and
\* background completions interleave.
C28_RevealIffResult ==
  (state = "reveal") <=> (result # None)

\* the voice request of the generation that was reset succeeded while the
\* form was shown again
C28_Witness ==
  /\ variant = "B"
  /\ state = "input"
  /\ gen = 1
  /\ hist[1].voice = "ok"
  /\ hist[1].spoken = "audio"
  /\ ignored
  /\ result = None

\* C29: in the background-load orchestrator an error message is shown only
\* in INPUT and the quota-wait flag is set only together with an error
\* message; the step that starts a generation clears both, so neither is
\* set in GENERATING, REVEAL or LANDING.
C29_ErrorOnlyOnForm ==
  [][variant = "B" =>
       /\ errorMsg # None => state = "input"
       /\ quotaWait => errorMsg # None
       /\ state \in {"generating", "reveal", "landing"} => (errorMsg = None /\ ~quotaWait)
       /\ (state = "input" /\ state' = "generating") =>
            (errorMsg' = None /\ quotaWait' = FALSE)]_vars

\* a generation was started from the form that showed the quota message
C29_Witness ==
  /\ variant = "B"
  /\ gen = 2
  /\ state = "generating"
  /\ hist[1].letter = "failed"
  /\ errorMsg = None
  /\ ~quotaWait

\* C30: whenever the background-load orchestrator sets the quota-wait flag,
\* the letter operation of that generation was invoked exactly 4 times,
\* after waits of 4000, 8000 and 16000 ms, every attempt failed with an
\* error that carries the rate-limit signature, and the error caught is
\* the one of the fourth attempt.
C30_QuotaOnlyAfterFourRateLimits ==
  [][(variant = "B" /\ ~quotaWait /\ quotaWait') =>
       /\ gen > 0
       /\ hist[gen].letter = "pending"
       /\ hist'[gen].letter = "failed"
       /\ letterCall.calls = 4
       /\ letterCall.waits = <<4000, 8000, 16000>>
       /\ Len(letterCall.errs) = 3
       /\ \A i \in 1..3 : letterCall.errs[i] \in RateLimitErrors
       /\ caught' # None
       /\ caught'[1] \in RateLimitErrors
       /\ errorMsg' # None]_vars

\* the second generation ended in the quota failure on a 429
C30_Witness ==
  /\ variant = "B"
  /\ gen = 2
  /\ state = "input"
  /\ quotaWait
  /\ caught = Some(Err("ApiError", Some(Msg429)))

\* ------------------------------------------------------------------------
\* Properties of the audio playback (specification SpecAudio)
\* ------------------------------------------------------------------------
Playing == {s \in Plays : sources[s] = "playing"}

\* C12: from the reset until the user triggers playback again no audio
\* source is playing, whichever way the continuations of earlier playAudio
\* invocations interleave with the reset.
C12_ResetCancelsPlayback ==
  ~armed => Playing = {}

\* C13: at most one audio source is started and not stopped at any time,
\* however the playAudio invocations interleave.
C13_AtMostOnePlaying ==
  Cardinality(Playing) <= 1

NothingToPlay ==
  \/ result = None
  \/ Get(result).audioData = None
  \/ Get(result).audioData = Some(<<>>)

\* C26: playback is never started automatically.  A source starts only in
\* the continuation of a playAudio invocation, and such a continuation
\* exists only if playAudio was invoked on the REVEAL screen with a result
\* whose audioData is not empty, in a step that is not the arrival of a
\* response; the arrival of the voice response changes nothing of the
\* playback.  While there is no result, no audioData or the empty string,
\* no step creates an audio context or a continuation.  A voice response
\* without audio part makes the voice request succeed with the empty string
\* at once: it is not a failure and no further attempt is made.
C26_PlaybackOnlyOnRequest ==
  [][/\ \A s \in Plays :
          (sources[s] # "playing" /\ sources'[s] = "playing") =>
            /\ plays[s].pc = "decode"
            /\ plays'[s].pc = "done"
            /\ plays[s].audioData # <<>>
     /\ \A i \in Plays :
          (plays[i].pc = "none" /\ plays'[i].pc # "none") =>
            /\ state = "reveal"
            /\ ~NothingToPlay
            /\ plays'[i].audioData = Get(result).audioData[1]
            /\ result' = result
            /\ hist' = hist
     /\ NothingToPlay =>
          /\ \A i \in Plays : plays[i].pc = "none" => plays'[i] = plays[i]
          /\ audioContext = "null" => audioContext' = "null"
     /\ \A g \in Gens :
          /\ hist'[g].voice # hist[g].voice =>
               <<audioContext', audioSourceRef', sources', plays', microtasks'>> =
                 <<audioContext, audioSourceRef, sources, plays, microtasks>>
          /\ (hist[g].spoken = "none" /\ hist'[g].spoken = "empty") =>
               /\ hist[g].voice = "pending"
               /\ hist'[g].voice = "ok"
               /\ tasks'[g].call.phase = "idle"
               /\ seq'.pc = "idle"
               /\ IsSome(result') => Get(result').audioData = Some(<<>>)
               /\ variant = "A" => IsSome(result')]_vars

\* the voice response carried no audio part: the REVEAL screen shows a
\* result whose audioData is the empty string, and nothing was created
C26_Witness ==
  /\ state = "reveal"
  /\ IsSome(result)
  /\ Get(result).audioData = Some(<<>>)
  /\ hist[1].voice = "ok"
  /\ hist[1].spoken = "empty"
  /\ audioContext = "null"
  /\ \A i \in Plays : plays[i].pc = "none"

\* with a payload, a click started a source
C26_WitnessPlaying ==
  /\ IsSome(result)
  /\ Get(result).audioData = Some(AudioSamples)
  /\ sources[1] = "playing"
  /\ plays[1].pc = "done"

\* ------------------------------------------------------------------------
\* Properties of the client functions (specification SpecClient)
\* ------------------------------------------------------------------------

\* the positions of the parts of the argument that carry an inline payload
InlinePositions == {i \in 1..Len(arg) : arg[i].inlineData # None}

FirstInline == CHOOSE i \in InlinePositions : \A j \in InlinePositions : i <= j
LastInline == CHOOSE i \in InlinePositions : \A j \in InlinePositions : i >= j

\* the data URI of the payload of part i of the argument
UriOfPart(i) == <<"data:image/png;base64,", arg[i].inlineData[1]>>

\* the retried image operation returned url after one invocation
ReturnedOnce(url) ==
  /\ Get(ret).phase = "returned"
  /\ Get(ret).outcome = url
  /\ Get(ret).calls = 1

\* the retried image operation failed with "No image data", not retried
FailedNoImageData ==
  /\ Get(ret).phase = "thrown"
  /\ Get(ret).outcome = [name |-> "Error",
                          message |-> <<<<"N","o"," ","i","m","a","g","e"," ","d","a","t","a">>>>]
  /\ Get(ret).calls = 1
  /\ Get(ret).waits = <<>>

\* C16 as stated: image generation, in the retried client and in the direct
\* one, returns the data URI of the FIRST inline payload of the response and
\* fails with "No image data", without a retry, when there is none.
C16_FirstInlineOrFailure ==
  (fn \in {"generateMemoryPortrait", "generateMemoryPortraitDirect"} /\ IsSome(ret)) =>
    IF fn = "generateMemoryPortrait"
      THEN IF InlinePositions = {} THEN FailedNoImageData
                                   ELSE ReturnedOnce(UriOfPart(FirstInline))
      ELSE InlinePositions # {} /\ Get(ret) = UriOfPart(FirstInline)

\* C16 amended: that holds of the retried client; the direct client returns
\* the data URI of the LAST inline payload and the empty string when there
\* is none.
C16_FirstInRetriedLastInDirect ==
  (fn \in {"generateMemoryPortrait", "generateMemoryPortraitDirect"} /\ IsSome(ret)) =>
    IF fn = "generateMemoryPortrait"
      THEN IF InlinePositions = {} THEN FailedNoImageData
                                   ELSE ReturnedOnce(UriOfPart(FirstInline))
      ELSE IF InlinePositions = {} THEN Get(ret) = <<>>
                                   ELSE Get(ret) = UriOfPart(LastInline)

\* the retried client answered by a text part and two different payloads
C16_Witness ==
  /\ fn = "generateMemoryPortrait"
  /\ arg = <<TextPart, InlinePart("iVBOR2"), InlinePart("iVBOR1")>>
  /\ IsSome(ret)
  /\ Get(ret).phase = "returned"

\* the positions of the grounding chunks of the argument that have a web
\* entry with a title and a URI
WellFormed ==
  {i \in 1..Len(arg.chunks) :
     /\ arg.chunks[i].web # None
     /\ arg.chunks[i].web[1].title # ""
     /\ arg.chunks[i].web[1].uri # ""}

\* C17: the citations returned are exactly the grounding chunks that have a
\* web entry with a non-empty title and a non-empty URI, in their original
\* order, each with its title and its URI unchanged.
C17_CitationsAreWellFormedChunks ==
  (fn = "generateEmotionalLetter" /\ IsSome(ret)) =>
    /\ Len(Get(ret).citations) = Cardinality(WellFormed)
    /\ \A i \in WellFormed :
         Get(ret).citations[Cardinality({j \in WellFormed : j <= i})] =
           [title |-> arg.chunks[i].web[1].title, uri |-> arg.chunks[i].web[1].uri]

\* two well-formed chunks around one without title
C17_Witness ==
  /\ fn = "generateEmotionalLetter"
  /\ Len(arg.chunks) = 3
  /\ WellFormed = {1, 3}
  /\ arg.chunks[2].web # None
  /\ arg.chunks[1] # arg.chunks[3]
  /\ IsSome(ret)
  /\ Len(Get(ret).citations) = 2

\* the signed 16-bit integer whose low byte is lo and whose high byte is hi
SignedLittleEndian(lo, hi) ==
  IF hi >= 128 THEN lo + 256 * hi - 65536 ELSE lo + 256 * hi

\* the buffer is mono, at 24000 Hz, with one frame per pair of bytes of the
\* argument, frame i being s_i / 32768 for the signed 16-bit little-endian
\* integer s_i of bytes 2i and 2i+1 (counted from 0)
FramesOfPairs(buffer) ==
  LET n == Len(arg.bytes) \div 2
  IN /\ buffer.numberOfChannels = 1
     /\ buffer.sampleRate = 24000
     /\ buffer.length = n
     /\ Len(buffer.channelData) = n
     /\ \A i \in 1..n :
          LET s == SignedLittleEndian(arg.bytes[2 * i - 1], arg.bytes[2 * i])
              frame == buffer.channelData[i]
          IN /\ s \in -32768..32767
             /\ frame.num = s
             /\ frame.den = 32768
             /\ -frame.den <= frame.num
             /\ frame.num < frame.den

\* C19 as stated: for a payload that decodes to 2n bytes, whatever n, the
\* buffer is mono, at 24000 Hz, with n frames, and frame i is s_i / 32768;
\* s_i lies in -32768..32767 and every frame in [-1, 1).
C19_DecodeAudioFrames ==
  (fn = "decodeAudio" /\ IsSome(ret) /\ Len(arg.bytes) % 2 = 0) =>
    /\ Get(ret).buffer # None
    /\ FramesOfPairs(Get(ret).buffer[1])

\* C19 amended: that holds for n >= 1; for the empty byte sequence no buffer
\* is returned, the allocation of a buffer of 0 frames is refused.
C19_DecodeAudioFramesNonEmpty ==
  (fn = "decodeAudio" /\ IsSome(ret) /\ Len(arg.bytes) % 2 = 0) =>
    IF Len(arg.bytes) = 0
      THEN Get(ret) = [error |-> "NotSupportedError", buffer |-> <<>>]
      ELSE /\ Get(ret).error = ""
           /\ Get(ret).buffer # None
           /\ FramesOfPairs(Get(ret).buffer[1])

\* the largest and the smallest sample: bytes FF 7F 00 80
C19_Witness ==
  /\ fn = "decodeAudio"
  /\ arg.bytes = <<255, 127, 0, 128>>
  /\ IsSome(ret)
  /\ Get(ret).buffer # None
  /\ Get(ret).buffer[1].channelData[1].num = 32767
  /\ Get(ret).buffer[1].channelData[2].num = -32768

\* C20: for a payload that decodes to 2n+1 bytes decodeAudio raises no
\* error and returns a buffer of n frames built from the first 2n bytes.
C20_OddByteDropped ==
  (fn = "decodeAudio" /\ IsSome(ret) /\ Len(arg.bytes) % 2 = 1) =>
    /\ Get(ret).error = ""
    /\ Get(ret).buffer # None
    /\ LET buffer == Get(ret).buffer[1]
           n == Len(arg.bytes) \div 2
       IN /\ buffer.length = n
          /\ \A i \in 1..n :
               buffer.channelData[i].num =
                 SignedLittleEndian(arg.bytes[2 * i - 1], arg.bytes[2 * i])

====
